---- MODULE Spec2Model ----
(***************************************************************************)
(* lulzprime: prime counting (pi.py, lehmer.py) and the prime resolution   *)
(* pipeline (lookup.py), as a state machine whose actions are the calls    *)
(* of the library and the steps of its multi-step operations               *)
(* (pi_parallel's worker fan-out, resolve_internal_with_pi's loops, the    *)
(* windows of _segmented_sieve, the recursion of phi).                     *)
(*                                                                         *)
(* Python lists are sequences (1-indexed here, so primes[a - 1] of the     *)
(* source is primes[a]); the composite-marking buffers are functions on    *)
(* 0 .. length-1 so that the index arithmetic is the source's.             *)
(***************************************************************************)
EXTENDS Integers, Sequences, FiniteSets, TLC

VARIABLES
    op,         \* the operation called last (or in progress)
    args,       \* its arguments
    ret,        \* its outcome [tag, val, did]: tag "none" while it is running,
                \* did = the internal operations the call has performed
    pp_pc,      \* pi_parallel: "idle", "pool" (workers dispatched), "done"
    count,      \* pi_parallel: the base count len(small_primes)
    small_primes, \* pi_parallel: the shared basis
    segments,   \* pi_parallel: the partitions, in order
    tasks,      \* pi_parallel: per partition "pending", "done" or "failed"
    segment_counts, \* pi_parallel: per partition the count its worker returned
    overtaken,  \* pi_parallel: some worker has ended while the worker of an
                \* earlier partition was still running
    pc,         \* resolve: position in resolve_internal_with_pi
    pi_fn,      \* resolve: the injected counting function (by name)
    index,      \* resolve: the prime index asked for
    guess,      \* resolve: forecast(index)
    lo,         \* resolve: bracket, lower bound
    hi,         \* resolve: bracket, upper bound
    r_x,        \* resolve: the candidate x
    ss_pc,      \* _segmented_sieve: "idle", "loop" (in the while loop), "done"
    ss_primes,  \* _segmented_sieve: small_primes
    ss_count,   \* _segmented_sieve: count
    ss_start,   \* _segmented_sieve: segment_start, the start of the next window
    ss_end,     \* _segmented_sieve: segment_end of the window processed last
    ss_buffer,  \* _segmented_sieve: is_composite, the buffer of that window
    ss_written, \* _segmented_sieve: the indices written in that buffer
    ss_windows, \* _segmented_sieve: the windows processed so far, in order
    ph_pc,      \* phi: "idle", "call" (the frame on top starts), "return" (a
                \* call has returned ph_val to the frame on top), "done"
    ph_stack,   \* phi: the frames of the recursion, the running one last
    ph_cache,   \* phi: the cache dictionary shared by the recursion
    ph_log,     \* phi: the keys written to the cache, in order
    ph_val      \* phi: the value returned last

vars == <<op, args, ret, pp_pc, count, small_primes, segments, tasks,
          segment_counts, overtaken, pc, pi_fn, index, guess, lo, hi, r_x,
          ss_pc, ss_primes, ss_count, ss_start, ss_end, ss_buffer,
          ss_written, ss_windows, ph_pc, ph_stack, ph_cache, ph_log, ph_val>>

pp_vars == <<pp_pc, count, small_primes, segments, tasks, segment_counts,
             overtaken>>
rs_vars == <<pc, pi_fn, index, guess, lo, hi, r_x>>
ss_vars == <<ss_pc, ss_primes, ss_count, ss_start, ss_end,
             ss_buffer, ss_written, ss_windows>>
ph_vars == <<ph_pc, ph_stack, ph_cache, ph_log, ph_val>>

(***************************************************************************)
(* Bounds of the model.                                                    *)
(***************************************************************************)
MaxX == 30          \* arguments x of the counting functions: MinX .. MaxX
MaxRangeX == 12     \* arguments of pi_range: MinX .. MaxRangeX
MaxParX == 11       \* arguments x of pi_parallel
MaxWorkers == 3     \* explicit worker counts: -1 .. MaxWorkers
MaxCpus == 4        \* os.cpu_count(): 1 .. MaxCpus, or None
MaxIndex == 7       \* prime indices: 1 .. MaxIndex
MaxGuess == 24      \* forecast values: 1 .. MaxGuess
MidThreshold == 10  \* a dispatch threshold inside the range of x
MidSegment == 4     \* a segment size inside the range of x
MaxPhiX == 30       \* arguments x of phi: MinX .. MaxPhiX
MaxBasisLimit == 7  \* bases of phi: the primes up to 0 .. MaxBasisLimit

(***************************************************************************)
(* Program constants.                                                      *)
(***************************************************************************)
SEGMENTED_THRESHOLD == 100000
DEFAULT_SEGMENT_SIZE == 1000000
PARALLEL_THRESHOLD == 1000000
SMALL_CUTOFF == 10000
PHI_CACHE_LIMIT == 10000
MAX_DEFAULT_WORKERS == 8

MinX == 0 - 2          \* the least argument tried (negative arguments included)

(***************************************************************************)
(* Arithmetic of the reference: what a prime is, and how many there are.   *)
(***************************************************************************)
Prime(n) == n >= 2 /\ \A d \in 2..(n - 1) : n % d # 0

PrimeCount(n) == Cardinality({p \in 2..n : Prime(p)})

PrimesIn(a, b) == Cardinality({p \in a..b : Prime(p)})

\* the number of primes up to 10000 (the known value the tests use), from
\* which the count near 10000 follows by testing the few numbers in between
PI_10000 == 1229
CountNear10000(n) == PI_10000 + PrimesIn(10001, n) - PrimesIn(n + 1, 10000)

Min(a, b) == IF a <= b THEN a ELSE b
Max(a, b) == IF a >= b THEN a ELSE b

\* int(math.sqrt(n)) and math.isqrt(n): the floor of the square root (the
\* float square root is exact to the floor for every n < 2^52).
isqrt(n) == CHOOSE r \in 0..n : r * r <= n /\ (r + 1) * (r + 1) > n

(***************************************************************************)
(* pi.py: _simple_sieve                                                    *)
(***************************************************************************)
\* a faulty marking loop: range(i * i + i, limit + 1, i), the square is left out
MarkMultiples_skip_square(is_composite, i, limit) ==
    [j \in 0..limit |-> is_composite[j] \/ (j >= i * i + i /\ (j - i * i) % i = 0)]

\* for j in range(i * i, limit + 1, i): is_composite[j] = True
MarkMultiples(is_composite, i, limit) ==
    [j \in 0..limit |-> is_composite[j] \/ (j >= i * i /\ (j - i * i) % i = 0)]

RECURSIVE SieveLoop(_, _, _, _)
SieveLoop(i, last, is_composite, limit) ==
    IF i > last THEN is_composite
    ELSE SieveLoop(i + 1, last,
                   IF ~is_composite[i] THEN MarkMultiples(is_composite, i, limit)
                   ELSE is_composite,
                   limit)

\* [i for i in range(2, limit + 1) if not flags[i]]
Collect(flags, limit) ==
    SelectSeq([k \in 1..(limit - 1) |-> k + 1], LAMBDA i : ~flags[i])

_simple_sieve(limit) ==
    IF limit < 2 THEN <<>>
    ELSE LET init == [j \in 0..limit |-> j \in {0, 1}]
         IN Collect(SieveLoop(2, isqrt(limit), init, limit), limit)

(***************************************************************************)
(* Outcomes of a call: a returned value or a raised exception, with the    *)
(* internal operations the call performed before it ended.                 *)
(***************************************************************************)
Ok(v, d) == [tag |-> "ok", val |-> v, did |-> d]
Raise(e, d) == [tag |-> e, val |-> 0, did |-> d]
Running(d) == [tag |-> "none", val |-> 0, did |-> d]
\* a returned list of primes, and a returned list of ranges: val is the length
OkList(l) == [tag |-> "ok", val |-> Len(l), did |-> {}, list |-> l]
OkRanges(l) == [tag |-> "ok", val |-> Len(l), did |-> {}, ranges |-> l]

\* Python's range(a, b, s) for s > 0, as a set
Range(a, b, s) == {m \in a..(b - 1) : (m - a) % s = 0}

\* sum(1 for is_comp in is_composite if not is_comp)
CountUnmarked(is_composite) ==
    Cardinality({i \in DOMAIN is_composite : ~is_composite[i]})

(***************************************************************************)
(* pi.py: _segmented_sieve                                                 *)
(***************************************************************************)
\* a faulty rounding: the multiple after segment_start even when segment_start
\* is itself one
FirstMultiple_next(segment_start, p) == (segment_start \div p + 1) * p

\* a faulty rounding down: the multiple of p at or before segment_start
FirstMultiple_floor(segment_start, p) == (segment_start \div p) * p

\* first_multiple = ((segment_start + p - 1) // p) * p
FirstMultiple(segment_start, p) == ((segment_start + p - 1) \div p) * p

\* the indices written for one prime: multiple - segment_start for
\* multiple in range(first_multiple, segment_end + 1, p)
MarkedIndices(first_multiple, segment_start, segment_end, p) ==
    {multiple - segment_start : multiple \in Range(first_multiple, segment_end + 1, p)}

RECURSIVE SieveSegment(_, _, _, _, _)
SieveSegment(is_composite, k, primes, segment_start, segment_end) ==
    IF k > Len(primes) THEN is_composite
    ELSE LET p == primes[k]
             marked == MarkedIndices(FirstMultiple(segment_start, p),
                                     segment_start, segment_end, p)
         IN SieveSegment([i \in DOMAIN is_composite |-> is_composite[i] \/ i \in marked],
                         k + 1, primes, segment_start, segment_end)

RECURSIVE SegmentLoop(_, _, _, _, _)
SegmentLoop(segment_start, cnt, x, segment_size, primes) ==
    IF segment_start > x THEN cnt
    ELSE LET segment_end == Min(segment_start + segment_size - 1, x)
             segment_length == segment_end - segment_start + 1
             is_composite == [i \in 0..(segment_length - 1) |-> FALSE]
             sieved == SieveSegment(is_composite, 1, primes, segment_start, segment_end)
         IN SegmentLoop(segment_end + 1, cnt + CountUnmarked(sieved), x,
                        segment_size, primes)

\* a faulty count that starts at 0 instead of len(small_primes)
_segmented_sieve_no_base(x, segment_size) ==
    IF x < 2 THEN 0
    ELSE LET sqrt_x == isqrt(x)
             primes == _simple_sieve(sqrt_x)
         IN IF x <= sqrt_x THEN Len(primes)
            ELSE SegmentLoop(sqrt_x + 1, 0, x, segment_size, primes)

_segmented_sieve(x, segment_size) ==
    IF x < 2 THEN 0
    ELSE LET sqrt_x == isqrt(x)
             primes == _simple_sieve(sqrt_x)
         IN IF x <= sqrt_x THEN Len(primes)
            ELSE SegmentLoop(sqrt_x + 1, Len(primes), x, segment_size, primes)

\* the indices written in one window: for every small prime p, index =
\* multiple - segment_start for multiple in range(first_multiple, segment_end + 1, p)
WrittenIndices(segment_start, segment_end, primes) ==
    UNION {MarkedIndices(FirstMultiple(segment_start, primes[k]),
                         segment_start, segment_end, primes[k]) : k \in DOMAIN primes}

\* a faulty window whose buffer is one entry short: its last integer is not
\* counted
Window_short(start, x, segment_size, primes) ==
    LET end == Min(start + segment_size - 1, x)
        segment_length == end - start
        fresh == [i \in 0..(segment_length - 1) |-> FALSE]
        indices == WrittenIndices(start, end, primes)
        sieved == [i \in DOMAIN fresh |-> i \in indices]
    IN [segment_end |-> end, is_composite |-> sieved, written |-> indices,
        primes_found |-> CountUnmarked(sieved)]

\* one pass of the while loop, on the window that starts at start: the
\* window's end, its buffer after the marking, the indices written, and the
\* number of unmarked entries
Window(start, x, segment_size, primes) ==
    LET end == Min(start + segment_size - 1, x)
        segment_length == end - start + 1
        fresh == [i \in 0..(segment_length - 1) |-> FALSE]
        indices == WrittenIndices(start, end, primes)
        sieved == [i \in DOMAIN fresh |-> i \in indices]
    IN [segment_end |-> end, is_composite |-> sieved, written |-> indices,
        primes_found |-> CountUnmarked(sieved)]

(***************************************************************************)
(* pi.py: pi and pi_range.  SEGMENTED_THRESHOLD is a local constant of pi  *)
(* and the segment size a default argument; both are parameters here so    *)
(* that each dispatch branch is taken within the bounds.                   *)
(***************************************************************************)
pi(x, is_int, threshold, segment_size) ==
    IF ~is_int THEN Raise("TypeError", {})
    ELSE IF x < 0 THEN Raise("ValueError", {})
    ELSE IF x < 2 THEN Ok(0, {})
    ELSE IF x < threshold THEN Ok(Len(_simple_sieve(x)), {"_simple_sieve"})
    ELSE Ok(_segmented_sieve(x, segment_size), {"_segmented_sieve"})

\* a faulty range count that includes the lower bound: pi(y) - pi(x - 1)
pi_range_inclusive(x, y, threshold, segment_size) ==
    IF x >= y THEN Ok(0, {})
    ELSE LET py == pi(y, TRUE, threshold, segment_size)
             px == pi(x - 1, TRUE, threshold, segment_size)
         IN IF py.tag # "ok" THEN py
            ELSE IF px.tag # "ok" THEN Raise(px.tag, py.did \cup px.did)
            ELSE Ok(py.val - px.val, py.did \cup px.did)

\* pi(y) - pi(x): pi(y) is evaluated first; an exception of either propagates
pi_range(x, y, threshold, segment_size) ==
    IF x >= y THEN Ok(0, {})
    ELSE LET py == pi(y, TRUE, threshold, segment_size)
             px == pi(x, TRUE, threshold, segment_size)
         IN IF py.tag # "ok" THEN py
            ELSE IF px.tag # "ok" THEN Raise(px.tag, py.did \cup px.did)
            ELSE Ok(py.val - px.val, py.did \cup px.did)

(***************************************************************************)
(* lehmer.py                                                               *)
(***************************************************************************)
\* for j in range(i * i, limit + 1, i): is_prime[j] = False
ClearMultiples(flags, i, limit) ==
    [j \in 0..limit |-> flags[j] /\ ~(j >= i * i /\ (j - i * i) % i = 0)]

RECURSIVE LehmerSieveLoop(_, _, _, _)
LehmerSieveLoop(i, last, flags, limit) ==
    IF i > last THEN flags
    ELSE LehmerSieveLoop(i + 1, last,
                         IF flags[i] THEN ClearMultiples(flags, i, limit) ELSE flags,
                         limit)

\* a faulty outer loop that stops one short: range(2, int(math.isqrt(limit)))
_simple_sieve_lehmer_short(limit) ==
    IF limit < 2 THEN <<>>
    ELSE LET init == [j \in 0..limit |-> j \notin {0, 1}]
             final == LehmerSieveLoop(2, isqrt(limit) - 1, init, limit)
         IN SelectSeq([k \in 1..(limit - 1) |-> k + 1], LAMBDA i : final[i])

_simple_sieve_lehmer(limit) ==
    IF limit < 2 THEN <<>>
    ELSE LET init == [j \in 0..limit |-> j \notin {0, 1}]
             final == LehmerSieveLoop(2, isqrt(limit), init, limit)
         IN SelectSeq([k \in 1..(limit - 1) |-> k + 1], LAMBDA i : final[i])

pi_small(x) == IF x < 2 THEN 0 ELSE Len(_simple_sieve_lehmer(x))

\* the reference of the tests: the integers of [1, x] that none of the first a
\* primes divides, counted one by one
phi_bruteforce(x, a, primes_first_a) ==
    IF a = 0 THEN x
    ELSE IF x < 1 THEN 0
    ELSE Cardinality({n \in 1..x : \A i \in 1..a : n % primes_first_a[i] # 0})

\* a faulty recursion that takes the shortcut for x = p_a too: if x <= p_a
RECURSIVE phi_le(_, _, _, _, _)
phi_le(x, a, primes, cache, cap) ==
    IF <<x, a>> \in DOMAIN cache THEN [val |-> cache[<<x, a>>], cache |-> cache]
    ELSE IF a = 0 THEN [val |-> x, cache |-> cache]
    ELSE IF x < 1 THEN [val |-> 0, cache |-> cache]
    ELSE LET p_a == primes[a]
             r1 == phi_le(x, a - 1, primes, cache, cap)
             r2 == phi_le(x \div p_a, a - 1, primes, r1.cache, cap)
             result == IF x <= p_a THEN r1.val ELSE r1.val - r2.val
             after == IF x <= p_a THEN r1.cache ELSE r2.cache
         IN [val |-> result,
             cache |-> IF Cardinality(DOMAIN after) < cap
                       THEN (<<x, a>> :> result) @@ after
                       ELSE after]

\* phi with its memo table: the result and the table after the call.
\* cap is the size limit (10000 in the source).
RECURSIVE phi(_, _, _, _, _)
phi(x, a, primes, cache, cap) ==
    IF <<x, a>> \in DOMAIN cache THEN [val |-> cache[<<x, a>>], cache |-> cache]
    ELSE IF a = 0 THEN [val |-> x, cache |-> cache]
    ELSE IF x < 1 THEN [val |-> 0, cache |-> cache]
    ELSE LET p_a == primes[a]
             r1 == phi(x, a - 1, primes, cache, cap)
             r2 == phi(x \div p_a, a - 1, primes, r1.cache, cap)
             result == IF x < p_a THEN r1.val ELSE r1.val - r2.val
             after == IF x < p_a THEN r1.cache ELSE r2.cache
         IN [val |-> result,
             cache |-> IF Cardinality(DOMAIN after) < cap
                       THEN (<<x, a>> :> result) @@ after
                       ELSE after]

EmptyCache == [k \in {} |-> 0]

\* a faulty size test that lets the table grow one entry past the limit
CacheHasRoom_inclusive(cache, cap) == Cardinality(DOMAIN cache) <= cap

\* len(cache) < 10000, the test before a result is stored
CacheHasRoom(cache, cap) == Cardinality(DOMAIN cache) < cap

\* a frame of phi(x, a): stage is "new" before its first statement, "first"
\* while it waits for phi(x, a - 1), "second" while it waits for
\* phi(x // p_a, a - 1); r1 is the value of the first call
Frame(x, a) == [x |-> x, a |-> a, stage |-> "new", r1 |-> 0]

\* a faulty Legendre sum: phi(x, a) + a, the integer 1 is counted as a prime
lehmer_pi_plus_a(x, cutoff) ==
    IF x < 2 THEN 0
    ELSE IF x = 2 THEN 1
    ELSE IF x < 5 THEN 2
    ELSE IF x < cutoff THEN pi_small(x)
    ELSE LET x_sqrt == isqrt(x)
             a == pi_small(x_sqrt)
             primes == _simple_sieve_lehmer(x_sqrt)
         IN IF Len(primes) < a THEN pi_small(x)
            ELSE phi(x, a, primes, EmptyCache, PHI_CACHE_LIMIT).val + a

\* SMALL_CUTOFF is a local constant of lehmer_pi; a parameter here
lehmer_pi(x, cutoff) ==
    IF x < 2 THEN 0
    ELSE IF x = 2 THEN 1
    ELSE IF x < 5 THEN 2
    ELSE IF x < cutoff THEN pi_small(x)
    ELSE LET x_sqrt == isqrt(x)
             a == pi_small(x_sqrt)
             primes == _simple_sieve_lehmer(x_sqrt)
         IN IF Len(primes) < a THEN pi_small(x)
            ELSE phi(x, a, primes, EmptyCache, PHI_CACHE_LIMIT).val + a - 1

\* a faulty Legendre part whose basis stops one short of the square root
lehmer_pi_legendre_short(x) ==
    LET x_sqrt == isqrt(x) - 1
        a == pi_small(x_sqrt)
        primes == _simple_sieve_lehmer(x_sqrt)
        fallback == Len(primes) < a
        phi_x_a == IF fallback THEN 0
                   ELSE phi(x, a, primes, EmptyCache, PHI_CACHE_LIMIT).val
    IN [a |-> a, primes |-> primes, fallback |-> fallback, phi_x_a |-> phi_x_a,
        result |-> IF fallback THEN pi_small(x) ELSE phi_x_a + a - 1]

\* the Legendre part of lehmer_pi, which the program runs for x >= SMALL_CUTOFF,
\* with its intermediate values: a, the basis, whether the defensive fallback
\* was taken, phi(x, a) and the value returned
lehmer_pi_legendre(x) ==
    LET x_sqrt == isqrt(x)
        a == pi_small(x_sqrt)
        primes == _simple_sieve_lehmer(x_sqrt)
        fallback == Len(primes) < a
        phi_x_a == IF fallback THEN 0
                   ELSE phi(x, a, primes, EmptyCache, PHI_CACHE_LIMIT).val
    IN [a |-> a, primes |-> primes, fallback |-> fallback, phi_x_a |-> phi_x_a,
        result |-> IF fallback THEN pi_small(x) ELSE phi_x_a + a - 1]

(***************************************************************************)
(* pi.py: the helpers of pi_parallel                                       *)
(***************************************************************************)
\* a faulty partition whose next range starts on the previous range's end
RECURSIVE RangesLoop_overlap(_, _, _, _, _, _, _)
RangesLoop_overlap(i, current, segs, end, num_workers, segment_size, remainder) ==
    IF i >= num_workers THEN segs
    ELSE LET size == segment_size + (IF i < remainder THEN 1 ELSE 0)
             segment_start == current
             segment_end == current + size - 1
         IN IF segment_start > end THEN segs
            ELSE RangesLoop_overlap(i + 1, segment_end,
                            Append(segs, <<segment_start, Min(segment_end, end)>>),
                            end, num_workers, segment_size, remainder)

\* a faulty partition that gives the remainder to the last ranges
RECURSIVE RangesLoop_remainder_last(_, _, _, _, _, _, _)
RangesLoop_remainder_last(i, current, segs, end, num_workers, segment_size, remainder) ==
    IF i >= num_workers THEN segs
    ELSE LET size == segment_size + (IF i >= num_workers - remainder THEN 1 ELSE 0)
             segment_start == current
             segment_end == current + size - 1
         IN IF segment_start > end THEN segs
            ELSE RangesLoop_remainder_last(i + 1, segment_end + 1,
                            Append(segs, <<segment_start, Min(segment_end, end)>>),
                            end, num_workers, segment_size, remainder)

RECURSIVE RangesLoop(_, _, _, _, _, _, _)
RangesLoop(i, current, segs, end, num_workers, segment_size, remainder) ==
    IF i >= num_workers THEN segs
    ELSE LET size == segment_size + (IF i < remainder THEN 1 ELSE 0)
             segment_start == current
             segment_end == current + size - 1
         IN IF segment_start > end THEN segs
            ELSE RangesLoop(i + 1, segment_end + 1,
                            Append(segs, <<segment_start, Min(segment_end, end)>>),
                            end, num_workers, segment_size, remainder)

\* the list of (segment_start, segment_end), or ValueError
_create_segment_ranges(start, end, num_workers) ==
    IF start > end THEN [tag |-> "ok", val |-> <<>>]
    ELSE IF num_workers <= 0 THEN [tag |-> "ValueError", val |-> <<>>]
    ELSE LET total_range == end - start + 1
         IN [tag |-> "ok",
             val |-> RangesLoop(0, start, <<>>, end, num_workers,
                                total_range \div num_workers,
                                total_range % num_workers)]

RECURSIVE SieveSegmentSkip(_, _, _, _, _)
SieveSegmentSkip(is_composite, k, primes, segment_start, segment_end) ==
    IF k > Len(primes) THEN is_composite
    ELSE LET p == primes[k]
             fm == FirstMultiple(segment_start, p)
             first_multiple == IF fm = p THEN fm + p ELSE fm
             marked == MarkedIndices(first_multiple, segment_start, segment_end, p)
         IN SieveSegmentSkip([i \in DOMAIN is_composite |-> is_composite[i] \/ i \in marked],
                             k + 1, primes, segment_start, segment_end)

\* a faulty buffer that is one entry short: the last integer is not counted
_count_segment_primes_short(segment_start, segment_end, primes) ==
    IF segment_start > segment_end THEN 0
    ELSE LET segment_length == segment_end - segment_start
             is_composite == [i \in 0..(segment_length - 1) |-> FALSE]
         IN CountUnmarked(SieveSegmentSkip(is_composite, 1, primes,
                                           segment_start, segment_end - 1))

_count_segment_primes(segment_start, segment_end, primes) ==
    IF segment_start > segment_end THEN 0
    ELSE LET segment_length == segment_end - segment_start + 1
             is_composite == [i \in 0..(segment_length - 1) |-> FALSE]
         IN CountUnmarked(SieveSegmentSkip(is_composite, 1, primes,
                                           segment_start, segment_end))

\* segment_length, the length of the buffer [False] * segment_length that a
\* worker allocates for its partition
BufferLength(segment_start, segment_end) == segment_end - segment_start + 1

\* sum(segment_counts), taken in list order
RECURSIVE SumUpTo(_, _)
SumUpTo(f, n) == IF n = 0 THEN 0 ELSE SumUpTo(f, n - 1) + f[n]

\* the sequential pi of the program, with its own threshold and segment size
pi_default(x) == pi(x, TRUE, SEGMENTED_THRESHOLD, DEFAULT_SEGMENT_SIZE)

(***************************************************************************)
(* pi.py: _pi_legendre                                                     *)
(***************************************************************************)
\* the inner phi of _pi_legendre with its memo table: the value and the table
\* after the call
RECURSIVE _pi_legendre_phi(_, _, _, _)
_pi_legendre_phi(x_val, k, primes_sqrt, memo) ==
    IF k = 0 THEN [val |-> x_val, memo |-> memo]
    ELSE IF x_val < 2 THEN [val |-> 0, memo |-> memo]
    ELSE IF <<x_val, k>> \in DOMAIN memo
         THEN [val |-> memo[<<x_val, k>>], memo |-> memo]
    ELSE LET p_k == primes_sqrt[k]
             r1 == _pi_legendre_phi(x_val, k - 1, primes_sqrt, memo)
             r2 == _pi_legendre_phi(x_val \div p_k, k - 1, primes_sqrt, r1.memo)
             result == r1.val - r2.val
         IN [val |-> result, memo |-> (<<x_val, k>> :> result) @@ r2.memo]

_pi_legendre(x, primes_sqrt) ==
    LET a == Len(primes_sqrt)
    IN _pi_legendre_phi(x, a, primes_sqrt, EmptyCache).val + a - 1

(***************************************************************************)
(* The collaborators of lookup.py (forecast.py and primality.py): any      *)
(* positive integer forecast, and the primality and stepping oracle.       *)
(***************************************************************************)
is_prime(n) == n >= 2 /\ \A d \in 2..(n - 1) : n % d # 0

\* prev_prime(n): the largest prime strictly less than n; none for n <= 2
HasPrevPrime(n) == \E p \in 2..(n - 1) : is_prime(p)
prev_prime(n) == CHOOSE p \in 2..(n - 1) :
                    is_prime(p) /\ \A q \in (p + 1)..(n - 1) : ~is_prime(q)

\* next_prime(n): the smallest prime strictly greater than n (below 2n + 2)
next_prime(n) == CHOOSE p \in (n + 1)..(2 * Max(n, 1) + 2) :
                    is_prime(p) /\ \A q \in (n + 1)..(p - 1) : ~is_prime(q)

(***************************************************************************)
(* lookup.py                                                               *)
(***************************************************************************)
\* int(n * (math.log(n) + math.log(math.log(n))) * 1.1) for n = 6 .. 30
AnalyticHiTable ==
    <<15, 20, 24, 29, 34, 39, 44, 50, 55, 61, 66, 72, 78, 84, 90, 96, 102,
      108, 114, 120, 126, 133, 139, 146, 152>>
AnalyticHi(n) == AnalyticHiTable[n - 5]

\* lo = max(2, int(guess * 0.9)); int(g * 0.9) = floor(9g / 10) for g < 2 * 10^6
InitialLo(g) == Max(2, (9 * g) \div 10)

InitialHi(target_index, g) ==
    IF target_index >= 6 THEN AnalyticHi(target_index) ELSE g * 2

\* the injected counting functions: the program's pi, and faulty ones
PiFunctions == {"pi", "zero", "plus_one", "skip", "parity", "double"}
PiFn(f, x) ==
    LET exact == pi_default(x).val
    IN CASE f = "pi" -> exact
         [] f = "zero" -> 0
         [] f = "plus_one" -> exact + 1
         [] f = "skip" -> IF exact >= 3 THEN exact + 1 ELSE exact
         [] f = "parity" -> IF x % 2 = 0 THEN exact + 2 ELSE exact
         [] f = "double" -> 2 * exact

\* a faulty bisection that searches for pi_fn(x) > target_index
Bisect_strict(l, h, target_index, f) ==
    LET mid == (l + h) \div 2
    IN IF PiFn(f, mid) <= target_index THEN <<mid + 1, h>> ELSE <<l, mid>>

\* a faulty bisection that keeps mid in the lower half: lo = mid
Bisect_no_progress(l, h, target_index, f) ==
    LET mid == (l + h) \div 2
    IN IF PiFn(f, mid) < target_index THEN <<mid, h>> ELSE <<l, mid>>

\* a faulty bisection that drops mid from the bracket: hi = mid - 1
Bisect_exclusive_hi(l, h, target_index, f) ==
    LET mid == (l + h) \div 2
    IN IF PiFn(f, mid) < target_index THEN <<mid + 1, h>> ELSE <<l, mid - 1>>

\* one iteration of the bisection loop: the new (lo, hi)
Bisect(l, h, target_index, f) ==
    LET mid == (l + h) \div 2
    IN IF PiFn(f, mid) < target_index THEN <<mid + 1, h>> ELSE <<l, mid>>

(***************************************************************************)
(* pi.py: pi_parallel up to the dispatch of the workers.  cpus is what     *)
(* os.cpu_count() returns (0 for None), pool_ok whether the process pool   *)
(* could be created and the tasks submitted.  The sequential pi it falls   *)
(* back to is the program's own.                                           *)
(***************************************************************************)
Dispatched(cnt, primes, segs) ==
    [ret |-> Running({"_simple_sieve", "dispatch"}), count |-> cnt,
     small_primes |-> primes, segments |-> segs]

Finished(r) == [ret |-> r, count |-> 0, small_primes |-> <<>>, segments |-> <<>>]

Fallback(x, d) == Ok(pi_default(x).val, d \cup {"fallback"})

\* a faulty order of checks: the threshold delegation before the worker check
pi_parallel_begin_late_check(x, is_int, has_workers, workers, threshold, cpus, pool_ok) ==
    IF ~is_int THEN Finished(Raise("TypeError", {}))
    ELSE IF x < 0 THEN Finished(Raise("ValueError", {}))
    ELSE IF x < threshold
         THEN Finished(Ok(pi_default(x).val, {"pi"} \cup pi_default(x).did))
    ELSE IF has_workers /\ workers <= 0 THEN Finished(Raise("ValueError", {}))
    ELSE LET w == IF has_workers THEN workers
                  ELSE Min(IF cpus = 0 THEN 1 ELSE cpus, MAX_DEFAULT_WORKERS)
         IN IF x < 2 THEN Finished(Ok(0, {}))
            ELSE LET sqrt_x == isqrt(x)
                     primes == _simple_sieve(sqrt_x)
                     segs == _create_segment_ranges(sqrt_x + 1, x, w)
                 IN IF x <= sqrt_x THEN Finished(Ok(Len(primes), {"_simple_sieve"}))
                    ELSE IF segs.tag # "ok" \/ ~pool_ok
                         THEN Finished(Fallback(x, {"_simple_sieve"}))
                    ELSE Dispatched(Len(primes), primes, segs.val)

pi_parallel_begin(x, is_int, has_workers, workers, threshold, cpus, pool_ok) ==
    IF ~is_int THEN Finished(Raise("TypeError", {}))
    ELSE IF x < 0 THEN Finished(Raise("ValueError", {}))
    ELSE IF has_workers /\ workers <= 0 THEN Finished(Raise("ValueError", {}))
    ELSE IF x < threshold
         THEN Finished(Ok(pi_default(x).val, {"pi"} \cup pi_default(x).did))
    ELSE LET w == IF has_workers THEN workers
                  ELSE Min(IF cpus = 0 THEN 1 ELSE cpus, MAX_DEFAULT_WORKERS)
         IN IF x < 2 THEN Finished(Ok(0, {}))
            ELSE LET sqrt_x == isqrt(x)
                     primes == _simple_sieve(sqrt_x)
                     segs == _create_segment_ranges(sqrt_x + 1, x, w)
                 IN IF x <= sqrt_x THEN Finished(Ok(Len(primes), {"_simple_sieve"}))
                    ELSE IF segs.tag # "ok" \/ ~pool_ok
                         THEN Finished(Fallback(x, {"_simple_sieve"}))
                    ELSE Dispatched(Len(primes), primes, segs.val)

\* a faulty aggregation that returns what the surviving workers counted
pi_parallel_end_partial(x, cnt, status, counts, d) ==
    Ok(cnt + SumUpTo(counts, Len(counts)), d)

\* after the pool has shut down: sum the counts in order, or fall back
pi_parallel_end(x, cnt, status, counts, d) ==
    IF \E i \in DOMAIN status : status[i] = "failed"
    THEN Fallback(x, d)
    ELSE Ok(cnt + SumUpTo(counts, Len(counts)), d)

(***************************************************************************)
(* The state machine.                                                      *)
(***************************************************************************)
Thresholds == {2, MidThreshold, SEGMENTED_THRESHOLD}
SegmentSizes == {1, MidSegment, DEFAULT_SEGMENT_SIZE}
Cutoffs == {MidThreshold, 2 * MidThreshold, SMALL_CUTOFF}
ParallelThresholds == {0, MidThreshold, PARALLEL_THRESHOLD}
CpuCounts == 0..MaxCpus \cup {MAX_DEFAULT_WORKERS + 1}
MaxHi == 4 * MaxGuess
\* arguments of lehmer_pi: the small ones, and two at the program's cutoff
LehmerArgs == MinX..MaxX \cup {SMALL_CUTOFF, SMALL_CUTOFF + 7}

Args(x, y, is_int, has_workers, workers, threshold, segment_size) ==
    [x |-> x, y |-> y, is_int |-> is_int, has_workers |-> has_workers,
     workers |-> workers, threshold |-> threshold, segment_size |-> segment_size]

PoolIdle ==
    /\ pp_pc' = "idle"
    /\ count' = 0
    /\ small_primes' = <<>>
    /\ segments' = <<>>
    /\ tasks' = <<>>
    /\ segment_counts' = <<>>
    /\ overtaken' = FALSE

ResolveIdle ==
    /\ pc' = "idle"
    /\ pi_fn' = "pi"
    /\ index' = 0
    /\ guess' = 0
    /\ lo' = 0
    /\ hi' = 0
    /\ r_x' = 0

SieveIdle ==
    /\ ss_pc' = "idle"
    /\ ss_primes' = <<>>
    /\ ss_count' = 0
    /\ ss_start' = 0
    /\ ss_end' = 0
    /\ ss_buffer' = <<>>
    /\ ss_written' = {}
    /\ ss_windows' = <<>>

PhiIdle ==
    /\ ph_pc' = "idle"
    /\ ph_stack' = <<>>
    /\ ph_cache' = EmptyCache
    /\ ph_log' = <<>>
    /\ ph_val' = 0

Init ==
    /\ op = "none"
    /\ args = Args(0, 0, TRUE, FALSE, 0, 0, 0)
    /\ ret = Running({})
    /\ pp_pc = "idle"
    /\ count = 0
    /\ small_primes = <<>>
    /\ segments = <<>>
    /\ tasks = <<>>
    /\ segment_counts = <<>>
    /\ overtaken = FALSE
    /\ pc = "idle"
    /\ pi_fn = "pi"
    /\ index = 0
    /\ guess = 0
    /\ lo = 0
    /\ hi = 0
    /\ r_x = 0
    /\ ss_pc = "idle"
    /\ ss_primes = <<>>
    /\ ss_count = 0
    /\ ss_start = 0
    /\ ss_end = 0
    /\ ss_buffer = <<>>
    /\ ss_written = {}
    /\ ss_windows = <<>>
    /\ ph_pc = "idle"
    /\ ph_stack = <<>>
    /\ ph_cache = EmptyCache
    /\ ph_log = <<>>
    /\ ph_val = 0

\* no call is in progress and none has returned yet: the library keeps no
\* state between calls, so every call starts from here
Quiet == op = "none"

\* the caller has taken the outcome of the call
Finish ==
    /\ op # "none"
    /\ ret.tag # "none"
    /\ op' = "none"
    /\ args' = Args(0, 0, TRUE, FALSE, 0, 0, 0)
    /\ ret' = Running({})
    /\ PoolIdle /\ ResolveIdle /\ SieveIdle /\ PhiIdle

CallPi ==
    /\ Quiet
    /\ \E x \in MinX..MaxX, is_int \in BOOLEAN, t \in Thresholds, s \in SegmentSizes :
          /\ op' = "pi"
          /\ args' = Args(x, 0, is_int, FALSE, 0, t, s)
          /\ ret' = pi(x, is_int, t, s)
    /\ PoolIdle /\ ResolveIdle /\ SieveIdle /\ PhiIdle

CallSegmentedSieve ==
    /\ Quiet
    /\ \E x \in MinX..MaxX, s \in SegmentSizes :
          /\ op' = "_segmented_sieve"
          /\ args' = Args(x, 0, TRUE, FALSE, 0, 0, s)
          /\ ret' = Ok(_segmented_sieve(x, s), {})
    /\ PoolIdle /\ ResolveIdle /\ SieveIdle /\ PhiIdle

CallPiRange ==
    /\ Quiet
    /\ \E x \in MinX..MaxRangeX, y \in MinX..MaxRangeX,
          t \in Thresholds, s \in SegmentSizes :
          /\ op' = "pi_range"
          /\ args' = Args(x, y, TRUE, FALSE, 0, t, s)
          /\ ret' = pi_range(x, y, t, s)
    /\ PoolIdle /\ ResolveIdle /\ SieveIdle /\ PhiIdle

\* the segment sizes of the window-by-window runs
RunSegmentSizes == 1..(MaxX + 1) \cup {DEFAULT_SEGMENT_SIZE}

\* _segmented_sieve, window by window: the call up to the while loop
\* (x <= sqrt_x cannot hold for x >= 2)
SegmentedSieveCall ==
    /\ Quiet
    /\ \E x \in MinX..MaxX, s \in RunSegmentSizes :
          LET sqrt_x == isqrt(x)
              primes == _simple_sieve(sqrt_x)
          IN /\ op' = "_segmented_sieve.loop"
             /\ args' = [x |-> x, segment_size |-> s]
             /\ IF x < 2
                THEN /\ ret' = Ok(0, {})
                     /\ ss_pc' = "done"
                     /\ ss_primes' = <<>>
                     /\ ss_count' = 0
                     /\ ss_start' = 0
                ELSE /\ ret' = Running({})
                     /\ ss_pc' = "loop"
                     /\ ss_primes' = primes
                     /\ ss_count' = Len(primes)
                     /\ ss_start' = sqrt_x + 1
    /\ ss_end' = 0
    /\ ss_buffer' = <<>>
    /\ ss_written' = {}
    /\ ss_windows' = <<>>
    /\ PoolIdle /\ ResolveIdle /\ PhiIdle

\* while segment_start <= x: one window
SieveWindow ==
    /\ ss_pc = "loop"
    /\ ss_start <= args.x
    /\ LET w == Window(ss_start, args.x, args.segment_size, ss_primes)
       IN /\ ss_end' = w.segment_end
          /\ ss_buffer' = w.is_composite
          /\ ss_written' = w.written
          /\ ss_count' = ss_count + w.primes_found
          /\ ss_windows' = Append(ss_windows, <<ss_start, w.segment_end>>)
          /\ ss_start' = w.segment_end + 1
    /\ UNCHANGED <<op, args, ret, ss_pc, ss_primes>>
    /\ UNCHANGED pp_vars
    /\ UNCHANGED rs_vars
    /\ UNCHANGED ph_vars

\* the loop has ended: return count
SegmentedSieveReturn ==
    /\ ss_pc = "loop"
    /\ ss_start > args.x
    /\ ret' = Ok(ss_count, {})
    /\ ss_pc' = "done"
    /\ UNCHANGED <<op, args, ss_primes, ss_count, ss_start, ss_end,
                   ss_buffer, ss_written, ss_windows>>
    /\ UNCHANGED pp_vars
    /\ UNCHANGED rs_vars
    /\ UNCHANGED ph_vars

\* args.threshold is the cutoff below which lehmer_pi sieves
CallLehmerPi ==
    /\ Quiet
    /\ \E x \in LehmerArgs, c \in Cutoffs :
          /\ op' = "lehmer_pi"
          /\ args' = Args(x, 0, TRUE, FALSE, 0, c, 0)
          /\ ret' = Ok(lehmer_pi(x, c), {})
    /\ PoolIdle /\ ResolveIdle /\ SieveIdle /\ PhiIdle

\* the Legendre part of lehmer_pi run on its own for any x >= 1, as the
\* program runs it for x >= SMALL_CUTOFF; ret carries the intermediate values
CallLehmerPiLegendre ==
    /\ Quiet
    /\ \E x \in 1..MaxX \cup {SMALL_CUTOFF, SMALL_CUTOFF + 7} :
          LET l == lehmer_pi_legendre(x)
          IN /\ op' = "lehmer_pi.legendre"
             /\ args' = [x |-> x, primes |-> l.primes]
             /\ ret' = [tag |-> "ok", val |-> l.result, did |-> {}, a |-> l.a,
                        phi_x_a |-> l.phi_x_a, fallback |-> l.fallback]
    /\ PoolIdle /\ ResolveIdle /\ SieveIdle /\ PhiIdle

\* the cache size limits tried: no caching, a table that fills up, the program's
PhiCaps == {0, 1, 3, PHI_CACHE_LIMIT}

\* phi called with a fresh cache on a basis of the first primes
CallPhi ==
    /\ Quiet
    /\ \E x \in MinX..MaxPhiX, limit \in 0..MaxBasisLimit, cap \in PhiCaps :
          LET primes == _simple_sieve_lehmer(limit)
          IN \E a \in 0..Len(primes) :
                /\ op' = "phi"
                /\ args' = [x |-> x, a |-> a, primes |-> primes, cap |-> cap]
                /\ ret' = Ok(phi(x, a, primes, EmptyCache, cap).val, {})
    /\ PoolIdle /\ ResolveIdle /\ SieveIdle /\ PhiIdle

Pop(stack) == SubSeq(stack, 1, Len(stack) - 1)
Top(stack) == stack[Len(stack)]

\* phi called with a fresh cache, run one recursion step at a time
PhiCall ==
    /\ Quiet
    /\ \E x \in MinX..MaxPhiX, limit \in 0..MaxBasisLimit, cap \in PhiCaps :
          LET primes == _simple_sieve_lehmer(limit)
          IN \E a \in 0..Len(primes) :
                /\ op' = "phi.steps"
                /\ args' = [x |-> x, a |-> a, primes |-> primes, cap |-> cap]
                /\ ph_stack' = <<Frame(x, a)>>
    /\ ret' = Running({})
    /\ ph_pc' = "call"
    /\ ph_cache' = EmptyCache
    /\ ph_log' = <<>>
    /\ ph_val' = 0
    /\ PoolIdle /\ ResolveIdle /\ SieveIdle

\* the frame on top starts: the cache lookup, the base cases, or the first
\* recursive call
PhiEnter ==
    /\ op = "phi.steps"
    /\ ph_pc = "call"
    /\ LET f == Top(ph_stack)
           cache_key == <<f.x, f.a>>
       IN IF cache_key \in DOMAIN ph_cache
          THEN /\ ph_val' = ph_cache[cache_key]
               /\ ph_stack' = Pop(ph_stack)
               /\ ph_pc' = "return"
          ELSE IF f.a = 0
          THEN /\ ph_val' = f.x
               /\ ph_stack' = Pop(ph_stack)
               /\ ph_pc' = "return"
          ELSE IF f.x < 1
          THEN /\ ph_val' = 0
               /\ ph_stack' = Pop(ph_stack)
               /\ ph_pc' = "return"
          ELSE /\ ph_stack' = Append(Append(Pop(ph_stack),
                                            [f EXCEPT !.stage = "first"]),
                                     Frame(f.x, f.a - 1))
               /\ ph_pc' = "call"
               /\ UNCHANGED ph_val
    /\ UNCHANGED <<op, args, ret, ph_cache, ph_log>>
    /\ UNCHANGED pp_vars
    /\ UNCHANGED rs_vars
    /\ UNCHANGED ss_vars

\* a recursive call has returned ph_val to the frame on top: the frame makes
\* its second call, or computes its result, stores it if the cache has room,
\* and returns it
PhiResume ==
    /\ op = "phi.steps"
    /\ ph_pc = "return"
    /\ ph_stack # <<>>
    /\ LET f == Top(ph_stack)
           cache_key == <<f.x, f.a>>
           p_a == args.primes[f.a]
           result == IF f.stage = "first" THEN ph_val ELSE f.r1 - ph_val
       IN IF f.stage = "first" /\ ~(f.x < p_a)
          THEN /\ ph_stack' = Append(Append(Pop(ph_stack),
                                  [f EXCEPT !.stage = "second", !.r1 = ph_val]),
                                     Frame(f.x \div p_a, f.a - 1))
               /\ ph_pc' = "call"
               /\ UNCHANGED <<ph_cache, ph_log, ph_val>>
          ELSE /\ IF CacheHasRoom(ph_cache, args.cap)
                  THEN /\ ph_cache' = (cache_key :> result) @@ ph_cache
                       /\ ph_log' = Append(ph_log, cache_key)
                  ELSE UNCHANGED <<ph_cache, ph_log>>
               /\ ph_val' = result
               /\ ph_stack' = Pop(ph_stack)
               /\ ph_pc' = "return"
    /\ UNCHANGED <<op, args, ret>>
    /\ UNCHANGED pp_vars
    /\ UNCHANGED rs_vars
    /\ UNCHANGED ss_vars

\* the top-level call returns to its caller
PhiReturn ==
    /\ op = "phi.steps"
    /\ ph_pc = "return"
    /\ ph_stack = <<>>
    /\ ret' = Ok(ph_val, {})
    /\ ph_pc' = "done"
    /\ UNCHANGED <<op, args, ph_stack, ph_cache, ph_log, ph_val>>
    /\ UNCHANGED pp_vars
    /\ UNCHANGED rs_vars
    /\ UNCHANGED ss_vars

\* _simple_sieve of pi.py or of lehmer.py called on its own
CallSimpleSieve ==
    /\ Quiet
    /\ \E limit \in MinX..MaxX, module \in {"pi", "lehmer"} :
          /\ op' = "_simple_sieve"
          /\ args' = [x |-> limit, module |-> module]
          /\ ret' = OkList(IF module = "pi" THEN _simple_sieve(limit)
                           ELSE _simple_sieve_lehmer(limit))
    /\ PoolIdle /\ ResolveIdle /\ SieveIdle /\ PhiIdle

\* args.threshold is pi_parallel's threshold argument
CallPiParallel ==
    /\ Quiet
    /\ \E x \in MinX..MaxParX, is_int \in BOOLEAN, has_workers \in BOOLEAN,
          w \in (0 - 1)..MaxWorkers, t \in ParallelThresholds,
          cpus \in CpuCounts, pool_ok \in BOOLEAN :
          LET b == pi_parallel_begin(x, is_int, has_workers, w, t, cpus, pool_ok)
          IN /\ has_workers \/ w = 0
             /\ op' = "pi_parallel"
             /\ args' = Args(x, 0, is_int, has_workers, w, t, 0)
             /\ ret' = b.ret
             /\ pp_pc' = IF b.ret.tag = "none" THEN "pool" ELSE "done"
             /\ count' = b.count
             /\ small_primes' = b.small_primes
             /\ segments' = b.segments
             /\ tasks' = [i \in DOMAIN b.segments |-> "pending"]
             /\ segment_counts' = [i \in DOMAIN b.segments |-> 0]
             /\ overtaken' = FALSE
    /\ ResolveIdle /\ SieveIdle /\ PhiIdle

\* arguments of pi_parallel at the program's scale
LargeArgs == {PARALLEL_THRESHOLD, 2 * DEFAULT_SEGMENT_SIZE, 3 * DEFAULT_SEGMENT_SIZE}

\* pi_parallel called at the program's scale with its own threshold, followed
\* up to the start of the workers, each of which allocates the buffer of its
\* partition before it sieves; the sieving of millions of integers is not
\* followed
PiParallelAllocate ==
    /\ Quiet
    /\ \E x \in LargeArgs, w \in 1..MaxWorkers \cup {MAX_DEFAULT_WORKERS} :
          LET b == pi_parallel_begin(x, TRUE, TRUE, w, PARALLEL_THRESHOLD, 0, TRUE)
          IN /\ op' = "pi_parallel.workers"
             /\ args' = Args(x, 0, TRUE, TRUE, w, PARALLEL_THRESHOLD, 0)
             /\ ret' = b.ret
             /\ pp_pc' = "allocated"
             /\ count' = b.count
             /\ small_primes' = b.small_primes
             /\ segments' = b.segments
             /\ tasks' = [i \in DOMAIN b.segments |-> "pending"]
             /\ segment_counts' = [i \in DOMAIN b.segments |-> 0]
             /\ overtaken' = FALSE
    /\ ResolveIdle /\ SieveIdle /\ PhiIdle

\* _create_segment_ranges called on its own: args.x = start, args.y = end,
\* args.workers = num_workers
CallCreateSegmentRanges ==
    /\ Quiet
    /\ \E start \in MinX..MaxRangeX, end \in MinX..MaxRangeX,
          num_workers \in (0 - 1)..MaxWorkers :
          LET r == _create_segment_ranges(start, end, num_workers)
          IN /\ op' = "_create_segment_ranges"
             /\ args' = Args(start, end, TRUE, TRUE, num_workers, 0, 0)
             /\ ret' = IF r.tag = "ok" THEN OkRanges(r.val) ELSE Raise(r.tag, {})
    /\ PoolIdle /\ ResolveIdle /\ SieveIdle /\ PhiIdle

\* _count_segment_primes called on its own with the primes up to the square
\* root of segment_end: args.x = segment_start, args.y = segment_end
CallCountSegmentPrimes ==
    /\ Quiet
    /\ \E segment_start \in 0..MaxRangeX, segment_end \in 0..MaxRangeX :
          LET primes == _simple_sieve(isqrt(segment_end))
          IN /\ op' = "_count_segment_primes"
             /\ args' = [x |-> segment_start, y |-> segment_end, primes |-> primes]
             /\ ret' = Ok(_count_segment_primes(segment_start, segment_end, primes), {})
    /\ PoolIdle /\ ResolveIdle /\ SieveIdle /\ PhiIdle

\* _pi_legendre called with the primes up to the square root of x
CallPiLegendre ==
    /\ Quiet
    /\ \E x \in 0..MaxX :
          LET primes_sqrt == _simple_sieve(isqrt(x))
          IN /\ op' = "_pi_legendre"
             /\ args' = [x |-> x, primes |-> primes_sqrt]
             /\ ret' = Ok(_pi_legendre(x, primes_sqrt), {})
    /\ PoolIdle /\ ResolveIdle /\ SieveIdle /\ PhiIdle

\* the worker of partition i ends before the worker of an earlier partition
Overtakes(i, status) == \E j \in 1..(i - 1) : status[j] = "pending"

\* a worker returns the count of its partition
WorkerDone ==
    /\ pp_pc = "pool"
    /\ \E i \in DOMAIN tasks :
          /\ tasks[i] = "pending"
          /\ tasks' = [tasks EXCEPT ![i] = "done"]
          /\ segment_counts' = [segment_counts EXCEPT ![i] =
                _count_segment_primes(segments[i][1], segments[i][2], small_primes)]
          /\ overtaken' = (overtaken \/ Overtakes(i, tasks))
    /\ UNCHANGED <<op, args, ret, pp_pc, count, small_primes, segments>>
    /\ UNCHANGED rs_vars
    /\ UNCHANGED ss_vars
    /\ UNCHANGED ph_vars

\* a worker raises, or its process dies
WorkerFail ==
    /\ pp_pc = "pool"
    /\ \E i \in DOMAIN tasks :
          /\ tasks[i] = "pending"
          /\ tasks' = [tasks EXCEPT ![i] = "failed"]
          /\ overtaken' = (overtaken \/ Overtakes(i, tasks))
    /\ UNCHANGED <<op, args, ret, pp_pc, count, small_primes, segments, segment_counts>>
    /\ UNCHANGED rs_vars
    /\ UNCHANGED ss_vars
    /\ UNCHANGED ph_vars

\* the pool has shut down (every task has ended): aggregate
PiParallelReturn ==
    /\ pp_pc = "pool"
    /\ \A i \in DOMAIN tasks : tasks[i] # "pending"
    /\ ret' = pi_parallel_end(args.x, count, tasks, segment_counts, ret.did)
    /\ pp_pc' = "done"
    /\ UNCHANGED <<op, args, count, small_primes, segments, tasks, segment_counts,
                   overtaken>>
    /\ UNCHANGED rs_vars
    /\ UNCHANGED ss_vars
    /\ UNCHANGED ph_vars

(***************************************************************************)
(* lookup.py: resolve_internal_with_pi, one action per step.  The doubling *)
(* of hi and the forward stepping are cut off at MaxHi (they are unbounded *)
(* only under a faulty pi_fn).                                             *)
(***************************************************************************)
\* guess = forecast(index), then the initial bounds of _binary_search_pi
ResolveCall ==
    /\ Quiet
    /\ \E i \in 1..MaxIndex, g \in 1..MaxGuess, f \in PiFunctions :
          /\ op' = "resolve_internal_with_pi"
          /\ args' = Args(i, 0, TRUE, FALSE, 0, 0, 0)
          /\ index' = i
          /\ guess' = g
          /\ pi_fn' = f
          /\ lo' = InitialLo(g)
          /\ hi' = InitialHi(i, g)
    /\ ret' = Running({})
    /\ pc' = "check_lo"
    /\ r_x' = 0
    /\ PoolIdle /\ SieveIdle /\ PhiIdle

\* if pi_fn(lo) > target_index: lo = 2
WidenLo ==
    /\ pc = "check_lo"
    /\ lo' = IF PiFn(pi_fn, lo) > index THEN 2 ELSE lo
    /\ pc' = "check_hi"
    /\ UNCHANGED <<op, args, ret, pi_fn, index, guess, hi, r_x>>
    /\ UNCHANGED pp_vars
    /\ UNCHANGED ss_vars
    /\ UNCHANGED ph_vars

\* while pi_fn(hi) < target_index: hi *= 2
WidenHi ==
    /\ pc = "check_hi"
    /\ IF PiFn(pi_fn, hi) < index
       THEN /\ hi * 2 <= MaxHi
            /\ hi' = hi * 2
            /\ pc' = pc
       ELSE /\ hi' = hi
            /\ pc' = "bisect"
    /\ UNCHANGED <<op, args, ret, pi_fn, index, guess, lo, r_x>>
    /\ UNCHANGED pp_vars
    /\ UNCHANGED ss_vars
    /\ UNCHANGED ph_vars

\* while lo < hi: ...; return lo
BisectStep ==
    /\ pc = "bisect"
    /\ IF lo < hi
       THEN /\ lo' = Bisect(lo, hi, index, pi_fn)[1]
            /\ hi' = Bisect(lo, hi, index, pi_fn)[2]
            /\ pc' = pc
            /\ r_x' = r_x
       ELSE /\ r_x' = lo
            /\ pc' = "fix"
            /\ UNCHANGED <<lo, hi>>
    /\ UNCHANGED <<op, args, ret, pi_fn, index, guess>>
    /\ UNCHANGED pp_vars
    /\ UNCHANGED ss_vars
    /\ UNCHANGED ph_vars

\* if not is_prime(x): x = prev_prime(x)
FixCandidate ==
    /\ pc = "fix"
    /\ IF is_prime(r_x)
       THEN r_x' = r_x /\ pc' = "back" /\ ret' = ret
       ELSE IF HasPrevPrime(r_x)
            THEN r_x' = prev_prime(r_x) /\ pc' = "back" /\ ret' = ret
            ELSE r_x' = r_x /\ pc' = "done" /\ ret' = Raise("OracleError", {})
    /\ UNCHANGED <<op, args, pi_fn, index, guess, lo, hi>>
    /\ UNCHANGED pp_vars
    /\ UNCHANGED ss_vars
    /\ UNCHANGED ph_vars

\* while pi_fn(x) > index: x = prev_prime(x - 1)
StepBack ==
    /\ pc = "back"
    /\ IF PiFn(pi_fn, r_x) > index
       THEN IF HasPrevPrime(r_x - 1)
            THEN r_x' = prev_prime(r_x - 1) /\ pc' = pc /\ ret' = ret
            ELSE r_x' = r_x /\ pc' = "done" /\ ret' = Raise("OracleError", {})
       ELSE r_x' = r_x /\ pc' = "fwd" /\ ret' = ret
    /\ UNCHANGED <<op, args, pi_fn, index, guess, lo, hi>>
    /\ UNCHANGED pp_vars
    /\ UNCHANGED ss_vars
    /\ UNCHANGED ph_vars

\* while pi_fn(x) < index: x = next_prime(x + 1)
StepForward ==
    /\ pc = "fwd"
    /\ IF PiFn(pi_fn, r_x) < index
       THEN /\ r_x < MaxHi
            /\ r_x' = next_prime(r_x + 1)
            /\ pc' = pc
       ELSE /\ r_x' = r_x
            /\ pc' = "verify"
    /\ UNCHANGED <<op, args, ret, pi_fn, index, guess, lo, hi>>
    /\ UNCHANGED pp_vars
    /\ UNCHANGED ss_vars
    /\ UNCHANGED ph_vars

\* a faulty end of the pipeline that returns x unverified
Verified_unchecked(x, target_index, f) == Ok(x, {})

\* if pi_fn(x) != index: raise RuntimeError; return x
Verified(x, target_index, f) ==
    IF PiFn(f, x) # target_index THEN Raise("RuntimeError", {}) ELSE Ok(x, {})

Verify ==
    /\ pc = "verify"
    /\ ret' = Verified(r_x, index, pi_fn)
    /\ pc' = "done"
    /\ UNCHANGED <<op, args, pi_fn, index, guess, lo, hi, r_x>>
    /\ UNCHANGED pp_vars
    /\ UNCHANGED ss_vars
    /\ UNCHANGED ph_vars

Next ==
    \/ CallPi
    \/ CallSegmentedSieve
    \/ SegmentedSieveCall
    \/ SieveWindow
    \/ SegmentedSieveReturn
    \/ CallPiRange
    \/ CallLehmerPi
    \/ CallLehmerPiLegendre
    \/ CallPhi
    \/ PhiCall
    \/ PhiEnter
    \/ PhiResume
    \/ PhiReturn
    \/ CallSimpleSieve
    \/ CallPiParallel
    \/ PiParallelAllocate
    \/ CallCreateSegmentRanges
    \/ CallCountSegmentPrimes
    \/ CallPiLegendre
    \/ WorkerDone
    \/ WorkerFail
    \/ PiParallelReturn
    \/ ResolveCall
    \/ WidenLo
    \/ WidenHi
    \/ BisectStep
    \/ FixCandidate
    \/ StepBack
    \/ StepForward
    \/ Verify
    \/ Finish

Spec == Init /\ [][Next]_vars

\* a call of _segmented_sieve that has started runs on: the loop is sequential
\* code that nothing suspends
FairSpec == Spec /\ WF_vars(SieveWindow) /\ WF_vars(SegmentedSieveReturn)

\* a call of resolve_internal_with_pi that has started runs on: its loops are
\* sequential code that nothing suspends
ResolveFairSpec ==
    /\ Spec
    /\ WF_vars(WidenLo)
    /\ WF_vars(WidenHi)
    /\ WF_vars(BisectStep)
    /\ WF_vars(FixCandidate)
    /\ WF_vars(StepBack)
    /\ WF_vars(StepForward)
    /\ WF_vars(Verify)

(***************************************************************************)
(* Properties.                                                             *)
(***************************************************************************)
ValidPiCall == op = "pi" /\ args.is_int /\ args.x >= 0

\* C1: for every integer x >= 0, pi(x) returns exactly the number of primes
\* p <= x, whichever branch (x < 2, full sieve, segmented sieve) is taken.
C1_PiIsExact ==
    ValidPiCall => ret.tag = "ok" /\ ret.val = PrimeCount(args.x)

\* C1 witness: pi has counted primes on the segmented path, over several windows
C1_Witness ==
    /\ ValidPiCall
    /\ ret.did = {"_segmented_sieve"}
    /\ args.segment_size = MidSegment
    /\ args.x >= args.threshold + 2 * MidSegment
    /\ ret.val >= 8

\* C2: the two counting paths agree for every x >= 0,
\* _segmented_sieve(x) = len(_simple_sieve(x)), and the result of pi(x) is the
\* same for every value of the dispatch threshold (below, at and above x).
C2_PathsAgree ==
    /\ (op = "_segmented_sieve" /\ args.x >= 0)
          => ret.val = Len(_simple_sieve(args.x))
    /\ ValidPiCall
          => \A t \in 0..(MaxX + 2) :
                /\ pi(args.x, TRUE, t, args.segment_size).tag = ret.tag
                /\ pi(args.x, TRUE, t, args.segment_size).val = ret.val

\* C2 witness: pi called with x exactly on the threshold, primes counted
C2_Witness ==
    /\ ValidPiCall
    /\ args.x = args.threshold
    /\ args.x = MidThreshold
    /\ ret.val >= 4

\* C3: for every integer x >= 0, lehmer_pi(x) = pi(x), the exact prime count,
\* on the hard-coded cases, on the sieve branch and on the Legendre branch.
C3_LehmerIsPi ==
    (op = "lehmer_pi" /\ args.x >= 0)
        => IF args.x <= MaxX + 1
           THEN /\ ret.val = pi_default(args.x).val
                /\ ret.val = PrimeCount(args.x)
           ELSE ret.val = CountNear10000(args.x)

\* C3 witness: lehmer_pi has taken the Legendre branch at the program's own
\* cutoff (25 basis primes) and counted the 1229 primes up to 10000
C3_Witness ==
    /\ op = "lehmer_pi"
    /\ args.threshold = SMALL_CUTOFF
    /\ args.x = SMALL_CUTOFF
    /\ ret.val = 1229

ValidParallelCall ==
    /\ op = "pi_parallel"
    /\ args.is_int
    /\ args.x >= 0
    /\ args.has_workers => args.workers >= 1

\* C4: for every x >= 0, every workers >= 1 (also more workers than integers
\* in (isqrt(x), x]) and every threshold, pi_parallel returns pi(x); the base
\* count is the number of primes <= isqrt(x), the partitions tile (isqrt(x), x]
\* and every worker returns the number of primes of its partition.
C4_ParallelIsPi ==
    ValidParallelCall =>
        /\ pp_pc = "done" =>
              /\ ret.tag = "ok"
              /\ ret.val = pi_default(args.x).val
              /\ ret.val = PrimeCount(args.x)
        /\ "dispatch" \in ret.did =>
              /\ count = PrimeCount(isqrt(args.x))
              /\ Len(segments) >= 1
              /\ segments[1][1] = isqrt(args.x) + 1
              /\ segments[Len(segments)][2] = args.x
              /\ \A i \in 1..(Len(segments) - 1) :
                    segments[i + 1][1] = segments[i][2] + 1
              /\ \A i \in DOMAIN segments :
                    tasks[i] = "done" =>
                        segment_counts[i] = PrimesIn(segments[i][1], segments[i][2])

\* C4 witness: a call with more workers than integers to sieve has returned
\* the sum of the workers' counts
C4_Witness ==
    /\ ValidParallelCall
    /\ pp_pc = "done"
    /\ "dispatch" \in ret.did
    /\ "fallback" \notin ret.did
    /\ args.has_workers
    /\ args.workers > args.x - isqrt(args.x)
    /\ ret.val = 2

ResolveDone == op = "resolve_internal_with_pi" /\ pc = "done"

\* C5: for every index >= 1 and every positive integer forecast, the pipeline
\* with the exact pi and a correct oracle returns the index-th prime: x is
\* prime and pi(x) = index.  (The cut-off of the model never applies.)
C5_ResolveIsExact ==
    (op = "resolve_internal_with_pi" /\ pi_fn = "pi") =>
        /\ pc = "done" =>
              /\ ret.tag = "ok"
              /\ is_prime(ret.val)
              /\ pi_default(ret.val).val = index
              /\ Prime(ret.val)
              /\ PrimeCount(ret.val) = index
        /\ (pc = "check_hi" /\ PiFn(pi_fn, hi) < index) => hi * 2 <= MaxHi
        /\ (pc = "fwd" /\ PiFn(pi_fn, r_x) < index) => r_x < MaxHi

\* C5 witness: the fifth prime resolved from a forecast of 1 (hi doubled thrice)
C5_Witness ==
    /\ ResolveDone
    /\ pi_fn = "pi"
    /\ index = 5
    /\ guess = 1
    /\ hi >= 11
    /\ ret = Ok(11, {})

\* C6: for any injected pi_fn, exact or faulty, a returned x is prime and has
\* pi_fn(x) = index; when pi_fn(x) # index after the correction the call raises
\* RuntimeError (not ValueError or TypeError) and returns nothing.
C6_NeverWrong ==
    ResolveDone =>
        /\ ret.tag \in {"ok", "RuntimeError", "OracleError"}
        /\ ret.tag = "ok" =>
              /\ ret.val = r_x
              /\ is_prime(ret.val)
              /\ PiFn(pi_fn, ret.val) = index
        /\ (ret.tag # "OracleError" /\ PiFn(pi_fn, r_x) # index) =>
              /\ ret.tag = "RuntimeError"
              /\ ret.val = 0

\* C6 witness: under a faulty pi_fn both correction loops ran and the call raised
C6_Witness ==
    /\ ResolveDone
    /\ pi_fn = "skip"
    /\ index = 3
    /\ ret.tag = "RuntimeError"

\* C7: pi and pi_parallel raise TypeError for a non-integer x and ValueError
\* for x < 0, pi_parallel raises ValueError for workers <= 0 (also when
\* x < threshold); each check precedes all sieving, delegation and dispatch,
\* and no count is returned.
C7_Validation ==
    (op \in {"pi", "pi_parallel"}) =>
        /\ ~args.is_int => ret.tag = "TypeError"
        /\ (args.is_int /\ args.x < 0) => ret.tag = "ValueError"
        /\ (op = "pi_parallel" /\ args.is_int /\ args.x >= 0
              /\ args.has_workers /\ args.workers <= 0) => ret.tag = "ValueError"
        /\ ret.tag \in {"TypeError", "ValueError"} =>
              /\ ret.did = {}
              /\ ret.val = 0
              /\ pp_pc # "pool"
              /\ segments = <<>>
              /\ tasks = <<>>

\* C7 witness: workers <= 0 rejected on a call that would have been delegated
C7_Witness ==
    /\ op = "pi_parallel"
    /\ args.is_int
    /\ args.x >= 2
    /\ args.x < args.threshold
    /\ args.has_workers
    /\ args.workers <= 0
    /\ ret.tag = "ValueError"

\* C8: lehmer_pi(x) with x < 0, and pi_range(x, y) with x < 0 or y < 0 in
\* either order, signal an error instead of returning a count.
C8_NegativeRejected ==
    /\ (op = "lehmer_pi" /\ args.x < 0) => ret.tag # "ok"
    /\ (op = "pi_range" /\ (args.x < 0 \/ args.y < 0)) => ret.tag # "ok"

\* C9: for 0 <= x < y, pi_range(x, y) = pi(y) - pi(x), the number of primes p
\* with x < p <= y, which is not negative; for x >= y, pi_range(x, y) = 0.
C9_PiRange ==
    op = "pi_range" =>
        /\ (0 <= args.x /\ args.x < args.y) =>
              /\ ret.tag = "ok"
              /\ ret.val = pi_default(args.y).val - pi_default(args.x).val
              /\ ret.val = PrimesIn(args.x + 1, args.y)
              /\ ret.val >= 0
        /\ args.x >= args.y => ret.tag = "ok" /\ ret.val = 0

\* C9 witness: a range that starts on a prime and straddles the threshold
C9_Witness ==
    /\ op = "pi_range"
    /\ args.x = 3
    /\ args.x < args.threshold
    /\ args.y > args.threshold
    /\ ret.val = 3

\* C10: pi is monotone: pi(x1) <= pi(x2) for 0 <= x1 < x2, also when x1 is
\* served by the full sieve and x2 by the segmented sieve.
C10_Monotone ==
    ValidPiCall =>
        \A x2 \in (args.x + 1)..(MaxX + 1) :
            ret.val <= pi(x2, TRUE, args.threshold, args.segment_size).val

\* C10 witness: x1 is the last argument of the full sieve, x2 = x1 + 1 the
\* first of the segmented sieve
C10_Witness ==
    /\ ValidPiCall
    /\ args.x + 1 = args.threshold
    /\ ret.did = {"_simple_sieve"}
    /\ ret.val >= 4
    /\ pi(args.x + 1, TRUE, args.threshold, args.segment_size).did = {"_segmented_sieve"}

\* the count pi_parallel arrives at with k workers when every worker ends
\* normally: the base count plus the partitions' counts in partition order
RunCount(x, k) ==
    LET sqrt_x == isqrt(x)
        primes == _simple_sieve(sqrt_x)
        segs == _create_segment_ranges(sqrt_x + 1, x, k).val
        counts == [i \in DOMAIN segs |->
                      _count_segment_primes(segs[i][1], segs[i][2], primes)]
    IN Len(primes) + SumUpTo(counts, Len(counts))

\* C11: pi_parallel is deterministic: whichever order the workers end in, the
\* count of partition i is the i-th summand, and the returned count depends on
\* x alone: it is the count of an undisturbed run with k workers, for every
\* k >= 1, on every call.
C11_Deterministic ==
    ValidParallelCall =>
        /\ \A i \in DOMAIN tasks :
              tasks[i] = "done" =>
                  segment_counts[i] = PrimesIn(segments[i][1], segments[i][2])
        /\ pp_pc = "done" =>
              /\ ret.tag = "ok"
              /\ \A k \in 1..(MaxWorkers + MaxCpus) : ret.val = RunCount(args.x, k)

\* C11 witness: three workers ended out of partition order and the call
\* returned the sum of their counts
C11_Witness ==
    /\ ValidParallelCall
    /\ pp_pc = "done"
    /\ overtaken
    /\ "fallback" \notin ret.did
    /\ Len(segments) = 3
    /\ \A i \in DOMAIN tasks : segment_counts[i] >= 1
    /\ ret.val = 5

\* C12: when the pool cannot be created or any worker fails, pi_parallel with
\* valid arguments returns the sequential pi(x): no exception reaches the
\* caller and the partial counts of the other workers are not used.
C12_FailureFallsBack ==
    (ValidParallelCall /\ pp_pc = "done") =>
        /\ ret.tag = "ok"
        /\ (\E i \in DOMAIN tasks : tasks[i] = "failed") => "fallback" \in ret.did
        /\ "fallback" \in ret.did =>
              /\ ret.val = pi_default(args.x).val
              /\ ret.val = PrimeCount(args.x)

\* C12 witness: one worker failed after the others had counted primes, and the
\* call returned more than the base count plus the partial sum
C12_Witness ==
    /\ ValidParallelCall
    /\ pp_pc = "done"
    /\ \E i \in DOMAIN tasks : tasks[i] = "failed"
    /\ \E i \in DOMAIN tasks : tasks[i] = "done" /\ segment_counts[i] >= 1
    /\ ret.val > count + SumUpTo(segment_counts, Len(segment_counts))
    /\ ret.val = PrimeCount(args.x)

RangeSize(r) == r[2] - r[1] + 1

ValidRangesCall ==
    /\ op = "_create_segment_ranges"
    /\ args.x <= args.y
    /\ args.workers >= 1

C14_ExactlyNumWorkers ==
    /\ ValidRangesCall => Len(ret.ranges) = args.workers
    /\ (ValidParallelCall /\ "dispatch" \in ret.did /\ args.has_workers)
          => Len(segments) = args.workers

C17_SievesAgree ==
    op = "_simple_sieve" =>
        /\ ret.list = _simple_sieve(args.x)
        /\ ret.list = _simple_sieve_lehmer(args.x)
        /\ \A i \in 1..(Len(ret.list) - 1) : ret.list[i] < ret.list[i + 1]
        /\ \A i \in DOMAIN ret.list : Prime(ret.list[i])
        /\ {ret.list[i] : i \in DOMAIN ret.list} = {q \in 2..args.x : Prime(q)}
        /\ args.x < 2 => ret.list = <<>>

\* C17 witness: lehmer.py's sieve has returned the ten primes up to 30
C17_Witness ==
    /\ op = "_simple_sieve"
    /\ args.module = "lehmer"
    /\ args.x >= 29
    /\ Len(ret.list) = 10
    /\ ret.list[10] = 29

\* C16: with the exact pi, pi(lo - 1) < index <= pi(hi) when the bisection
\* loop of _binary_search_pi is first reached and after every iteration.
C16_Bracket ==
    (op = "resolve_internal_with_pi" /\ pi_fn = "pi" /\ pc = "bisect") =>
        /\ PrimeCount(lo - 1) < index
        /\ index <= PrimeCount(hi)

\* C18: with the exact pi, _binary_search_pi returns the least x with
\* pi(x) >= target_index, which is the target_index-th prime.
C18_MinimalX ==
    (op = "resolve_internal_with_pi" /\ pi_fn = "pi" /\ pc = "fix") =>
        /\ PrimeCount(r_x) >= index
        /\ PrimeCount(r_x - 1) < index
        /\ Prime(r_x)

SieveRun == op = "_segmented_sieve.loop"

\* C19: for every x >= 0 and every segment_size >= 1 (1 and sizes beyond x
\* included) _segmented_sieve comes to an end, and what it returns is the
\* number of primes <= x, the same for every segment size.
C19_SegmentSizeIsTuning ==
    /\ [](SieveRun /\ args.x >= 0 /\ ss_pc = "done" =>
              /\ ret.tag = "ok"
              /\ ret.val = PrimeCount(args.x)
              /\ \A s \in 1..(MaxX + 2) : _segmented_sieve(args.x, s) = ret.val
              /\ _segmented_sieve(args.x, DEFAULT_SEGMENT_SIZE) = ret.val)
    /\ [][SieveWindow => ss_start' > ss_start /\ ss_start' <= args.x + 1]_vars
    /\ (SieveRun ~> (SieveRun /\ ss_pc = "done"))

\* C19 witness: a run with segment size 1 has ended, one window per integer
C19_Witness ==
    /\ SieveRun
    /\ ss_pc = "done"
    /\ args.segment_size = 1
    /\ args.x >= 25
    /\ Len(ss_windows) = args.x - isqrt(args.x)
    /\ Len(ss_windows) >= 20
    /\ ret.val >= 9

\* C20: for x >= 2 and segment_size >= 1 the windows of _segmented_sieve are
\* consecutive and disjoint and, at the end, cover exactly (isqrt(x), x]; the
\* buffer of a window has length segment_end - segment_start + 1, between 1
\* and segment_size; the one buffer there is belongs to the window processed
\* last; and every index written lies inside it.
C20_Windows ==
    (SieveRun /\ args.x >= 2) =>
        /\ \A i \in DOMAIN ss_windows :
              /\ ss_windows[i][1] <= ss_windows[i][2]
              /\ ss_windows[i][2] - ss_windows[i][1] + 1 <= args.segment_size
              /\ isqrt(args.x) < ss_windows[i][1]
              /\ ss_windows[i][2] <= args.x
        /\ \A i \in 1..(Len(ss_windows) - 1) :
              ss_windows[i + 1][1] = ss_windows[i][2] + 1
        /\ ss_windows # <<>> =>
              /\ ss_windows[1][1] = isqrt(args.x) + 1
              /\ ss_windows[Len(ss_windows)][2] = ss_end
              /\ ss_start = ss_end + 1
              /\ DOMAIN ss_buffer = 0..(ss_end - ss_windows[Len(ss_windows)][1])
              /\ Cardinality(DOMAIN ss_buffer) >= 1
              /\ Cardinality(DOMAIN ss_buffer) <= args.segment_size
              /\ ss_written \subseteq DOMAIN ss_buffer
        /\ ss_pc = "done" =>
              /\ ss_windows # <<>>
              /\ ss_end = args.x
              /\ \A n \in (isqrt(args.x) + 1)..args.x :
                    Cardinality({i \in DOMAIN ss_windows :
                        ss_windows[i][1] <= n /\ n <= ss_windows[i][2]}) = 1

\* C20 witness: a run has ended after several full windows and a shorter last
\* one, in which composites were marked
C20_Witness ==
    /\ SieveRun
    /\ ss_pc = "done"
    /\ args.segment_size = MidSegment
    /\ Len(ss_windows) >= 4
    /\ Cardinality(DOMAIN ss_buffer) < args.segment_size
    /\ Cardinality(DOMAIN ss_buffer) >= 2
    /\ ss_written # {}

\* C30: _create_segment_ranges raises ValueError for every num_workers <= 0,
\* whatever start and end are (start > end included), and returns no list.
C30_RejectsNoWorkers ==
    (op = "_create_segment_ranges" /\ args.workers <= 0) =>
        ret.tag = "ValueError"

\* C29: for 0 <= segment_start <= segment_end and small_primes the primes up
\* to floor(sqrt(segment_end)), _count_segment_primes returns exactly the
\* number of primes in [segment_start, segment_end] (the small primes inside
\* the range counted, 0 and 1 not), and 0 when segment_start > segment_end.
C29_SegmentCountIsExact ==
    op = "_count_segment_primes" =>
        /\ ret.tag = "ok"
        /\ ret.val = IF args.x > args.y THEN 0 ELSE PrimesIn(args.x, args.y)

\* C28: for every x >= 2, _pi_legendre(x, primes_sqrt) with primes_sqrt the
\* primes up to floor(sqrt(x)) returns exactly the number of primes <= x.
C28_PiLegendreIsExact ==
    (op = "_pi_legendre" /\ args.x >= 2) =>
        ret.tag = "ok" /\ ret.val = PrimeCount(args.x)

\* the number of primes up to n, for the arguments of the Legendre part
LegendreCount(n) == IF n >= SMALL_CUTOFF THEN CountNear10000(n) ELSE PrimeCount(n)

\* C21: the Legendre identity as lehmer_pi uses it, whatever the cutoff: for
\* every x >= 1, with primes the sieve list up to isqrt(x) and a = len(primes)
\* = pi(isqrt(x)), phi(x, a, primes) is 1 plus the number of primes in
\* (p_a, x], hence phi(x, a) + a - 1 = pi(x); the defensive fallback branch
\* (len(primes) < a) is never taken.
C21_LegendreIdentity ==
    op = "lehmer_pi.legendre" =>
        /\ ~ret.fallback
        /\ ret.a = Len(args.primes)
        /\ ret.a = PrimeCount(isqrt(args.x))
        /\ \A i \in DOMAIN args.primes : Prime(args.primes[i])
        /\ ret.phi_x_a = 1 + (LegendreCount(args.x) - ret.a)
        /\ ret.phi_x_a + ret.a - 1 = LegendreCount(args.x)
        /\ ret.val = LegendreCount(args.x)

\* C21 witness: the Legendre part has run below every cutoff on a square of a
\* prime, with the basis 2, 3, 5: phi(25, 3) = 7 counts 1 and the six primes
\* in (5, 25]
C21_Witness ==
    /\ op = "lehmer_pi.legendre"
    /\ args.x = 25
    /\ args.primes = <<2, 3, 5>>
    /\ ret.a = 3
    /\ ret.phi_x_a = 7
    /\ ret.val = 9

PhiRun == op = "phi.steps"

\* C22: during a top-level phi evaluation that starts from an empty cache the
\* memo table is write-once: each key is written at most once, no entry is
\* overwritten or removed, every stored value is the true phi(x, a), only keys
\* with a >= 1 and x >= 1 are stored, and the table never holds more entries
\* than the size limit (10,000 in the program); the value returned is the one
\* the recursion computes in one piece.
C22_CacheWriteOnce ==
    /\ [](PhiRun =>
            /\ DOMAIN ph_cache = {ph_log[i] : i \in DOMAIN ph_log}
            /\ \A i, j \in DOMAIN ph_log : ph_log[i] = ph_log[j] => i = j
            /\ \A k \in DOMAIN ph_cache :
                  /\ k[1] >= 1
                  /\ k[2] >= 1
                  /\ ph_cache[k] = phi_bruteforce(k[1], k[2], args.primes)
            /\ Cardinality(DOMAIN ph_cache) <= args.cap
            /\ Cardinality(DOMAIN ph_cache) <= PHI_CACHE_LIMIT
            /\ ph_pc = "done" =>
                  LET r == phi(args.x, args.a, args.primes, EmptyCache, args.cap)
                  IN ret.val = r.val /\ ph_cache = r.cache)
    /\ [][(PhiRun /\ PhiRun') =>
            /\ \A k \in DOMAIN ph_cache :
                  k \in DOMAIN ph_cache' /\ ph_cache'[k] = ph_cache[k]
            /\ Len(ph_log') >= Len(ph_log)
            /\ SubSeq(ph_log', 1, Len(ph_log)) = ph_log]_vars

\* C22 witness: the table has filled up to its limit of 3 and the recursive
\* call about to start finds its key in it
C22_Witness ==
    /\ PhiRun
    /\ ph_pc = "call"
    /\ args.cap = 3
    /\ Len(ph_log) = 3
    /\ Len(ph_stack) >= 2
    /\ <<Top(ph_stack).x, Top(ph_stack).a>> \in DOMAIN ph_cache

ExactResolve == op = "resolve_internal_with_pi" /\ pi_fn = "pi"

\* C23: with the exact pi and any positive forecast, after the binary search
\* and the single 'if not prime, prev_prime' adjustment the candidate already
\* has pi(x) = index: the backward loop and the forward loop both execute zero
\* steps, on every run.
C23_LoopsAreNoOps ==
    /\ [](ExactResolve =>
            /\ pc \in {"back", "fwd", "verify"} =>
                  /\ is_prime(r_x)
                  /\ PiFn(pi_fn, r_x) = index
                  /\ PrimeCount(r_x) = index
            /\ pc \in {"back", "fwd", "verify", "done"} =>
                  r_x = IF is_prime(lo) THEN lo ELSE prev_prime(lo)
            /\ pc = "done" => ret = Ok(r_x, {}))
    /\ [][(ExactResolve /\ (StepBack \/ StepForward)) => r_x' = r_x]_vars

\* C23 witness: the exact pi, a search that ended on a composite (16, from a
\* forecast of 18 for the sixth prime) which the adjustment replaced by 13, and
\* both loops passed
C23_Witness ==
    /\ ExactResolve
    /\ pc = "verify"
    /\ index = 6
    /\ lo = 16
    /\ r_x = 13

ResolveRun == op = "resolve_internal_with_pi"

\* C24: with prev_prime(n) the largest prime strictly less than n and
\* next_prime(n) the smallest prime strictly greater than n, every step of the
\* backward loop replaces x by the prime immediately before it and every step
\* of the forward loop by the prime immediately after it (no prime is skipped,
\* also from x = 3 backward and from x = 2 forward), and the oracle is never
\* asked for a prime that does not exist.  (Stated for the backward steps from
\* x > 2: before 2 there is no prime to step to.)
C24_StepsToNeighbour ==
    [][ResolveRun =>
          /\ (StepBack /\ PiFn(pi_fn, r_x) > index /\ r_x > 2) =>
                /\ ret'.tag # "OracleError"
                /\ r_x' < r_x
                /\ Prime(r_x')
                /\ PrimesIn(r_x' + 1, r_x - 1) = 0
          /\ (StepForward /\ PiFn(pi_fn, r_x) < index) =>
                /\ r_x' > r_x
                /\ Prime(r_x')
                /\ PrimesIn(r_x + 1, r_x' - 1) = 0]_vars

\* C25: in _binary_search_pi, for every index >= 1 and every positive
\* forecast, lo <= hi holds when the bisection starts, every iteration keeps
\* lo <= hi, never decreases lo, never increases hi and strictly decreases
\* hi - lo, and the search ends with lo = hi.  (Stated for the exact pi.)
C25_BracketNarrows ==
    /\ [](ExactResolve =>
            /\ pc = "bisect" => lo <= hi
            /\ pc = "fix" => lo = hi /\ r_x = lo)
    /\ [][(ExactResolve /\ BisectStep /\ lo < hi) =>
            /\ lo' <= hi'
            /\ lo' >= lo
            /\ hi' <= hi
            /\ hi' - lo' < hi - lo]_vars

\* C26: resolve_internal_with_pi(index, pi) terminates for every index >= 1
\* and every positive forecast when pi is exact: the hi-doubling loop ends
\* (hi is positive and grows until pi(hi) >= index), the bisection ends (each
\* iteration shrinks hi - lo), both correction loops end (their conditions are
\* false at the first test), and the call then returns or raises.
C26_Terminates ==
    /\ [](ExactResolve =>
            /\ (pc = "check_hi" /\ PiFn(pi_fn, hi) < index) =>
                  /\ hi >= 1
                  /\ hi * 2 > hi
                  /\ hi * 2 <= MaxHi
            /\ (pc = "bisect" /\ lo < hi) =>
                  LET b == Bisect(lo, hi, index, pi_fn)
                  IN b[2] - b[1] < hi - lo /\ b[2] - b[1] >= 0
            /\ pc = "back" => ~(PiFn(pi_fn, r_x) > index)
            /\ pc = "fwd" => ~(PiFn(pi_fn, r_x) < index)
            /\ pc = "done" <=> ret.tag # "none"
            /\ pc = "done" => ret.tag \in {"ok", "RuntimeError"})
    /\ ExactResolve ~> (ExactResolve /\ pc = "done")

\* C26 witness: a run with the exact pi has ended after hi was doubled twice
\* (2, 4, 8) and the bisection narrowed [2, 8] to the fourth prime
C26_Witness ==
    /\ ExactResolve
    /\ pc = "done"
    /\ index = 4
    /\ guess = 1
    /\ lo = 7
    /\ hi = 7
    /\ ret = Ok(7, {})

\* C27: in pi_parallel the memory of each worker is bounded by the segment
\* size: every composite-marking buffer a worker allocates in
\* _count_segment_primes has length at most the fixed segment size
\* (1,000,000), whatever x and the number of workers are.
C27_WorkerBufferBounded ==
    (op \in {"pi_parallel", "pi_parallel.workers"} /\ pp_pc \in {"pool", "allocated"}) =>
        \A i \in DOMAIN segments :
            BufferLength(segments[i][1], segments[i][2]) <= DEFAULT_SEGMENT_SIZE

====
